---- MODULE Spec2Model ----
(***************************************************************************)
(* A model of src/poll/poll.py: the Poll and Survey XBlocks.               *)
(*                                                                         *)
(* One block instance is modelled.  `block` says which class it is; the    *)
(* content-scoped fields (answers, question, ...) are shared by all        *)
(* users, `tally` is the user_state_summary field, and choice, choices     *)
(* and submissions_count are user_state fields, one value per user.        *)
(* Every handler is one action: the runtime runs a handler to completion   *)
(* and saves the fields it changed.                                        *)
(***************************************************************************)
EXTENDS Integers, Sequences, FiniteSets, TLC

(***************************************************************************)
(* Bounds of the model.                                                    *)
(***************************************************************************)
\* Largest submissions_count a user is let to reach (max_submissions = 0
\* means "no limit", so the counter needs a cap).
MaxCount == 2

\* Largest size of a tally counter.  Votes that outlive the answer or the
\* question they were cast for are never taken back, so a counter can grow,
\* and fall, without limit.
MaxTally == 2

\* The students.  Permitted are those for whom can_view_private_results()
\* is true (course staff, or a member of a group named in the settings).
Users == {"u1", "u2"}
Permitted == {"u2"}

\* Answer keys of the Poll, and question and answer keys of the Survey:
\* the first keys of the defaults in the source.
PollKeys == {"R", "B"}
QuestionKeys == {"enjoy", "learn"}
AnswerKeys == {"Y", "N"}

\* Python's None, for a String field and for a Dict field.
None == "<None>"
NoneDict == [k \in {None} |-> None]

(***************************************************************************)
(* Strings.                                                                *)
(***************************************************************************)
RECURSIVE LStrip(_)
LStrip(s) == IF Len(s) > 0 /\ Head(s) = " " THEN LStrip(Tail(s)) ELSE s

RECURSIVE RStrip(_)
RStrip(s) ==
    IF Len(s) > 0 /\ SubSeq(s, Len(s), Len(s)) = " "
    THEN RStrip(SubSeq(s, 1, Len(s) - 1))
    ELSE s

\* str.strip()
Strip(s) == RStrip(LStrip(s))

\* dict.get(key, default)
Get(d, key, default) == IF key \in DOMAIN d THEN d[key] ELSE default

Digits == <<"0", "1", "2", "3", "4", "5", "6", "7", "8", "9">>
IsDigit(c) == \E i \in 1..10 : Digits[i] = c
DigitValue(c) == (CHOOSE i \in 1..10 : Digits[i] = c) - 1

RECURSIVE AllDigits(_)
AllDigits(s) == Len(s) = 0 \/ (IsDigit(Head(s)) /\ AllDigits(Tail(s)))

RECURSIVE DigitsValue(_, _)
DigitsValue(s, acc) ==
    IF Len(s) = 0 THEN acc ELSE DigitsValue(Tail(s), 10 * acc + DigitValue(Head(s)))

\* int(s) of a string: surrounding blanks are ignored, one sign is allowed.
\* IntOk says whether int(s) returns; otherwise it raises ValueError.
Unsigned(s) ==
    LET t == Strip(s)
    IN  IF Len(t) > 0 /\ Head(t) \in {"-", "+"} THEN Tail(t) ELSE t
IntOk(s) == Len(Unsigned(s)) > 0 /\ AllDigits(Unsigned(s))
IntOf(s) ==
    LET t == Strip(s)
        n == DigitsValue(Unsigned(s), 0)
    IN  IF Len(t) > 0 /\ Head(t) = "-" THEN 0 - n ELSE n

\* sum(d.values())
RECURSIVE SumValues(_)
SumValues(d) ==
    IF DOMAIN d = {} THEN 0
    ELSE LET k == CHOOSE x \in DOMAIN d : TRUE
         IN  d[k] + SumValues([x \in DOMAIN d \ {k} |-> d[x]])

\* dict(items).keys() of a list of items
Keys(items) == {items[i].key : i \in 1..Len(items)}

(***************************************************************************)
(* JSON request data.  A dict is a function from its keys; a JSON array    *)
(* is List(seq); any JSON value that is neither is Scalar.                 *)
(***************************************************************************)
List(seq) == [list |-> seq]
Scalar == [scalar |-> "x"]
IsList(v) == "list" \in DOMAIN v
IsDict(v) == "scalar" \notin DOMAIN v /\ "list" \notin DOMAIN v

(***************************************************************************)
(* The state.                                                              *)
(***************************************************************************)
VARIABLES
    block,              \* "poll" or "survey": the class of the block
    answers,            \* List: the answer items
    questions,          \* List: the question items (Survey)
    question,           \* String (Poll)
    feedback,           \* String
    private_results,    \* Boolean
    display_name,       \* String
    block_name,         \* String (Survey)
    max_submissions,    \* Integer
    tally,              \* Dict, scope user_state_summary
    choice,             \* String, scope user_state: user -> key or None (Poll)
    choices,            \* Dict, scope user_state: user -> dict or None (Survey)
    submissions_count,  \* Integer, scope user_state: user -> count
    last,               \* how the handler that ran last ended
    accepted            \* history: user -> the votes of the user that were
                        \* accepted since the configuration was last changed

config == <<answers, questions, question, feedback, private_results,
            display_name, block_name, max_submissions>>
user_state == <<choice, choices, submissions_count>>
vars == <<block, answers, questions, question, feedback, private_results,
          display_name, block_name, max_submissions, tally, choice, choices,
          submissions_count, last, accepted>>

(***************************************************************************)
(* PollBase                                                                *)
(***************************************************************************)
AlreadyVoted == "You have already voted in this poll."
NoVotesLeft == "You have already voted as many times as you are allowed."
MaxSubmissionsMissing == "Maximum Submissions missing or not an integer."
QuestionsMismatch ==
    "Not all questions were included, or unknown questions were included. Try refreshing and trying again."
UnknownAnswer ==
    "Found unknown answer '{answer_key}' for question key '{question_key}'"
PrivateResultsConflict ==
    "Private results may not be False when Maximum Submissions is not 1."

\* noun.lower() of the two nouns gather_items is called with
Lower(noun) == IF noun = "Answer" THEN "answer" ELSE "question"

\* img_alt_mandatory(): the IMG_ALT_MANDATORY setting, True by default
img_alt_mandatory == TRUE

\* What a piece of validation does to the result object: the value it
\* leaves in result['success'] (TRUE: untouched) and the messages it appends
\* to result['errors'], in order.
NoError == [success |-> TRUE, errors |-> <<>>]
Both(r1, r2) == [success |-> r1.success /\ r2.success, errors |-> r1.errors \o r2.errors]

\* One pass of the loop of gather_items over a dict item.
gather_item(item, noun, image) ==
    LET key == Strip(Get(item, "key", ""))
        image_link == Strip(Get(item, "img", ""))
        image_alt == Strip(Get(item, "img_alt", ""))
        label == Strip(Get(item, "label", ""))
        r_key ==
            IF key = ""
            THEN [success |-> FALSE, errors |-> <<noun \o " {item} contains no key.">>]
            ELSE NoError
        r_label ==
            IF label # ""
            THEN NoError
            ELSE IF image /\ image_link = ""
            THEN [success |-> FALSE,
                  errors |-> <<noun \o " has no text or img. Please make sure all "
                               \o Lower(noun) \o "s have one or the other, or both.">>]
            ELSE IF ~image
            THEN [success |-> FALSE,
                  errors |-> <<noun \o " was added with no label. All " \o Lower(noun)
                               \o "s must have labels. Please check the form. "
                               \o "Check the form and explicitly delete "
                               \o Lower(noun) \o "s if not needed.">>]
            ELSE NoError
        r_alt ==
            IF image_link # "" /\ image_alt = "" /\ img_alt_mandatory
            THEN [success |-> FALSE,
                  errors |-> <<"All images must have an alternative text describing the image in a way "
                               \o "that would allow someone to answer the poll if the image did not load.">>]
            ELSE NoError
    IN  [result |-> Both(r_key, Both(r_label, r_alt)),
         items |-> IF image
                   THEN <<[key |-> key, label |-> label, img |-> image_link, img_alt |-> image_alt]>>
                   ELSE <<[key |-> key, label |-> label]>>]

RECURSIVE gather_loop(_, _, _)
gather_loop(source_items, noun, image) ==
    IF source_items = <<>>
    THEN [result |-> NoError, items |-> <<>>]
    ELSE LET item == Head(source_items)
             this == IF ~IsDict(item)
                     THEN [result |-> [success |-> FALSE,
                                       errors |-> <<noun \o " {item} not a javascript object!">>],
                           items |-> <<>>]
                     ELSE gather_item(item, noun, image)
             rest == gather_loop(Tail(source_items), noun, image)
         IN  [result |-> Both(this.result, rest.result),
              items |-> this.items \o rest.items]

\* gather_items: the items gathered and what is done to the result object
gather_items(data, noun, field, image) ==
    LET present == field \in DOMAIN data /\ IsList(data[field])
        r_field ==
            IF present
            THEN NoError
            ELSE [success |-> FALSE,
                  errors |-> <<"'" \o field \o "' is not present, or not a JSON array.">>]
        source_items == IF present THEN data[field].list ELSE <<>>
        loop == gather_loop(source_items, noun, image)
        r_none ==
            IF loop.items = <<>>
            THEN [success |-> FALSE,
                  errors |-> <<"You must include at least one " \o Lower(noun) \o ".">>]
            ELSE NoError
    IN  [result |-> Both(r_field, Both(loop.result, r_none)), items |-> loop.items]

\* A faulty can_vote: the comparison lets one submission too many through
can_vote_one_more(count) == max_submissions = 0 \/ count <= max_submissions

\* can_vote(), on the submissions_count the handler holds at that point
can_vote(count) == max_submissions = 0 \/ count < max_submissions

can_view_private_results(u) == u \in Permitted

\* A faulty get_max_submissions: the conflict with private_results is not
\* looked for
get_max_submissions_no_conflict(data, private) ==
    LET ok == "max_submissions" \in DOMAIN data /\ IntOk(data["max_submissions"])
    IN  [value |-> IF ok THEN IntOf(data["max_submissions"]) ELSE 1,
         result |-> IF ok THEN NoError
                    ELSE [success |-> FALSE, errors |-> <<MaxSubmissionsMissing>>]]

\* A faulty get_max_submissions: a value that is no integer is reported in
\* result['errors'] while result['success'] is left alone
get_max_submissions_keeps_success(data, private) ==
    LET ok == "max_submissions" \in DOMAIN data /\ IntOk(data["max_submissions"])
        value == IF ok THEN IntOf(data["max_submissions"]) ELSE 1
    IN  [value |-> value,
         result |-> [success |-> value = 1 \/ private,
                     errors |-> (IF ok THEN <<>> ELSE <<MaxSubmissionsMissing>>)
                                \o (IF value # 1 /\ ~private
                                    THEN <<PrivateResultsConflict>> ELSE <<>>)]]

\* get_max_submissions: the value returned and what is done to the result
get_max_submissions(data, private) ==
    LET ok == "max_submissions" \in DOMAIN data /\ IntOk(data["max_submissions"])
        value == IF ok THEN IntOf(data["max_submissions"]) ELSE 1
        r_int == IF ok THEN NoError
                 ELSE [success |-> FALSE, errors |-> <<MaxSubmissionsMissing>>]
        r_conflict == IF value # 1 /\ ~private
                      THEN [success |-> FALSE, errors |-> <<PrivateResultsConflict>>]
                      ELSE NoError
    IN  [value |-> value, result |-> Both(r_int, r_conflict)]

\* send_vote_event: the events published
send_vote_event == <<"progress", "submitted">>

\* An Integer that may be None (the total of get_results)
Some(n) == [int |-> n]

\* round(n / float(d) * 100): to the nearest integer, a half away from zero
Abs(n) == IF n < 0 THEN 0 - n ELSE n
Percent(n, d) ==
    LET q == (200 * Abs(n) + Abs(d)) \div (2 * Abs(d))
    IN  IF (n < 0) = (d < 0) THEN q ELSE 0 - q

\* The keys of a list of items in the order OrderedDict(items) keeps them:
\* each key where it first occurs.
RECURSIVE OrderedKeys(_)
OrderedKeys(items) ==
    IF items = <<>>
    THEN <<>>
    ELSE LET front == OrderedKeys(SubSeq(items, 1, Len(items) - 1))
             key == items[Len(items)].key
         IN  IF \E i \in 1..Len(front) : front[i] = key THEN front ELSE Append(front, key)

\* list.sort(key=count, reverse=True): descending and stable
RECURSIVE SortByCount(_)
SortByCount(rows) ==
    IF rows = <<>>
    THEN <<>>
    ELSE LET front == SortByCount(SubSeq(rows, 1, Len(rows) - 1))
             row == rows[Len(rows)]
             n == Cardinality({i \in 1..Len(front) : front[i].count >= row.count})
         IN  SubSeq(front, 1, n) \o <<row>> \o SubSeq(front, n + 1, Len(front))

(***************************************************************************)
(* PollBlock                                                               *)
(***************************************************************************)
\* A faulty clean_tally: the keys that are no answers are not deleted
PollBlock_clean_tally_keeps_stale(t) ==
    [key \in Keys(answers) \cup DOMAIN t |-> IF key \in DOMAIN t THEN t[key] ELSE 0]

\* clean_tally, on tally t: the tally it leaves
PollBlock_clean_tally(t) ==
    [key \in Keys(answers) |-> IF key \in DOMAIN t THEN t[key] ELSE 0]

PollBlock_get_choice(u) ==
    IF choice[u] # None /\ choice[u] # "" /\ choice[u] \in Keys(answers)
    THEN choice[u]
    ELSE None

\* tally_detail: the (detail, total) it returns.  It leaves the tally
\* cleaned: PollBlock_clean_tally(tally).
PollBlock_tally_detail(u) ==
    LET chosen == PollBlock_get_choice(u)
        source_tally == PollBlock_clean_tally(tally)
        keys == OrderedKeys(answers)
        total == SumValues(source_tally)
        rows == [i \in 1..Len(keys) |->
                    [key |-> keys[i],
                     count |-> source_tally[keys[i]],
                     choice |-> keys[i] = chosen,
                     percent |-> IF total = 0 THEN 0
                                 ELSE Percent(source_tally[keys[i]], total)]]
        sorted == SortByCount(rows)
    IN  [detail |-> [i \in 1..Len(sorted) |->
                        sorted[i] @@ [first |-> i = 1, last |-> i = Len(sorted)]],
         total |-> total]

\* student_view: the tally it leaves stored
PollBlock_student_view_run(u) ==
    IF choice[u] # None /\ choice[u] # "" THEN PollBlock_clean_tally(tally) ELSE tally

\* student_view: the context it renders
PollBlock_student_view_response(u) ==
    LET context == [choice |-> PollBlock_get_choice(u),
                    private_results |-> private_results,
                    can_vote |-> can_vote(submissions_count[u]),
                    max_submissions |-> max_submissions,
                    submissions_count |-> submissions_count[u],
                    can_view_private_results |-> can_view_private_results(u)]
        td == PollBlock_tally_detail(u)
    IN  IF choice[u] # None /\ choice[u] # ""
        THEN context @@ [tally |-> td.detail, total |-> td.total]
        ELSE context

\* student_view_user_state: the JSON it returns (it changes no field)
PollBlock_student_view_user_state_response(u) ==
    [choice |-> PollBlock_get_choice(u),
     tally |-> tally,
     submissions_count |-> submissions_count[u]]

\* A faulty get_results: the view_results event is published, and the tally
\* cleaned, before the permission is looked at
PollBlock_get_results_run_eager(u) ==
    [tally |-> PollBlock_clean_tally(tally), events |-> <<"view_results">>]

\* get_results: the tally it leaves stored and the events it publishes
PollBlock_get_results_run(u) ==
    IF private_results /\ ~can_view_private_results(u)
    THEN [tally |-> tally, events |-> <<>>]
    ELSE [tally |-> PollBlock_clean_tally(tally), events |-> <<"view_results">>]

\* get_results: the JSON it returns
PollBlock_get_results_response(u) ==
    LET td == PollBlock_tally_detail(u)
    IN  IF private_results /\ ~can_view_private_results(u)
        THEN [tally |-> <<>>, total |-> NoneDict, plural |-> FALSE]
        ELSE [tally |-> td.detail, total |-> Some(td.total), plural |-> td.total > 1]

\* A faulty vote: a user who has voted may vote again while the results are
\* public
PollBlock_vote_run_again(u, data) ==
    LET old_choice == PollBlock_get_choice(u)
        count == IF old_choice = None THEN 0 ELSE submissions_count[u]
        cleaned == PollBlock_clean_tally(tally)
        removed == IF old_choice # None
                   THEN [cleaned EXCEPT ![old_choice] = @ - 1]
                   ELSE cleaned
    IN  IF "choice" \notin DOMAIN data \/ ~can_vote(count)
        THEN [tally |-> tally, choice |-> choice[u],
              submissions_count |-> submissions_count[u], events |-> <<>>,
              result |-> [success |-> FALSE, errors |-> <<NoVotesLeft>>]]
        ELSE IF data.choice \notin Keys(answers)
        THEN [tally |-> tally, choice |-> choice[u],
              submissions_count |-> submissions_count[u], events |-> <<>>,
              result |-> [success |-> FALSE,
                          errors |-> <<"No key \"{choice}\" in answers table.">>]]
        ELSE [tally |-> [removed EXCEPT ![data.choice] = @ + 1],
              choice |-> data.choice,
              submissions_count |-> count + 1,
              events |-> send_vote_event,
              result |-> [success |-> TRUE, errors |-> <<>>,
                          can_vote |-> can_vote(count + 1),
                          submissions_count |-> count + 1,
                          max_submissions |-> max_submissions]]

\* A faulty vote: the vote a user changes stays counted for the old choice
PollBlock_vote_run_keeps_old(u, data) ==
    LET old_choice == PollBlock_get_choice(u)
        keep == [tally |-> tally, choice |-> choice[u],
                 submissions_count |-> submissions_count[u], events |-> <<>>]
        count == IF old_choice = None THEN 0 ELSE submissions_count[u]
        cleaned == PollBlock_clean_tally(tally)
    IN  IF old_choice # None /\ ~private_results
        THEN keep @@ [result |-> [success |-> FALSE, errors |-> <<AlreadyVoted>>]]
        ELSE IF "choice" \notin DOMAIN data
        THEN keep @@ [result |-> [success |-> FALSE,
                                  errors |-> <<"Answer not included with request.">>]]
        ELSE IF data.choice \notin Keys(answers)
        THEN keep @@ [result |-> [success |-> FALSE,
                                  errors |-> <<"No key \"{choice}\" in answers table.">>]]
        ELSE IF ~can_vote(count)
        THEN [keep EXCEPT !.submissions_count = count]
             @@ [result |-> [success |-> FALSE, errors |-> <<NoVotesLeft>>]]
        ELSE [tally |-> [cleaned EXCEPT ![data.choice] = @ + 1],
              choice |-> data.choice,
              submissions_count |-> count + 1,
              events |-> send_vote_event,
              result |-> [success |-> TRUE, errors |-> <<>>,
                          can_vote |-> can_vote(count + 1),
                          submissions_count |-> count + 1,
                          max_submissions |-> max_submissions]]

\* vote: the result returned, the fields it leaves and the events published
PollBlock_vote_run(u, data) ==
    LET old_choice == PollBlock_get_choice(u)
        keep == [tally |-> tally, choice |-> choice[u],
                 submissions_count |-> submissions_count[u], events |-> <<>>]
        count == IF old_choice = None THEN 0 ELSE submissions_count[u]
        cleaned == PollBlock_clean_tally(tally)
        removed == IF old_choice # None
                   THEN [cleaned EXCEPT ![old_choice] = @ - 1]
                   ELSE cleaned
    IN  IF old_choice # None /\ ~private_results
        THEN keep @@ [result |-> [success |-> FALSE, errors |-> <<AlreadyVoted>>]]
        ELSE IF "choice" \notin DOMAIN data
        THEN keep @@ [result |-> [success |-> FALSE,
                                  errors |-> <<"Answer not included with request.">>]]
        ELSE IF data.choice \notin Keys(answers)
        THEN keep @@ [result |-> [success |-> FALSE,
                                  errors |-> <<"No key \"{choice}\" in answers table.">>]]
        ELSE IF ~can_vote(count)
        THEN [keep EXCEPT !.submissions_count = count]
             @@ [result |-> [success |-> FALSE, errors |-> <<NoVotesLeft>>]]
        ELSE [tally |-> [removed EXCEPT ![data.choice] = @ + 1],
              choice |-> data.choice,
              submissions_count |-> count + 1,
              events |-> send_vote_event,
              result |-> [success |-> TRUE, errors |-> <<>>,
                          can_vote |-> can_vote(count + 1),
                          submissions_count |-> count + 1,
                          max_submissions |-> max_submissions]]

\* studio_submit down to its check of result['success']: the result and the
\* values parsed from the request
PollBlock_studio_submit_parse(data) ==
    LET new_question == Strip(Get(data, "question", ""))
        new_feedback == Strip(Get(data, "feedback", ""))
        new_private == Get(data, "private_results", FALSE)
        ms == get_max_submissions(data, new_private)
        new_name == Strip(Get(data, "display_name", ""))
        r_question == IF new_question = ""
                      THEN [success |-> FALSE, errors |-> <<"You must specify a question.">>]
                      ELSE NoError
        gathered == gather_items(data, "Answer", "answers", TRUE)
    IN  [result |-> Both(ms.result, Both(r_question, gathered.result)),
         answers |-> gathered.items, question |-> new_question,
         feedback |-> new_feedback, private_results |-> new_private,
         display_name |-> new_name, max_submissions |-> ms.value]

\* A faulty studio_submit: the feedback is stored before the result is
\* looked at
PollBlock_studio_submit_run_early(parsed) ==
    IF ~parsed.result.success
    THEN [result |-> parsed.result, answers |-> answers, question |-> question,
          feedback |-> parsed.feedback, private_results |-> private_results,
          display_name |-> display_name, max_submissions |-> max_submissions]
    ELSE parsed

\* studio_submit: the result returned and the fields it leaves.  `parsed` is
\* PollBlock_studio_submit_parse(data), which no field has a part in.
PollBlock_studio_submit_run(parsed) ==
    IF ~parsed.result.success
    THEN [result |-> parsed.result, answers |-> answers, question |-> question,
          feedback |-> feedback, private_results |-> private_results,
          display_name |-> display_name, max_submissions |-> max_submissions]
    ELSE parsed

\* student_voted: the JSON it returns (it changes no field)
PollBlock_student_voted_response(u) ==
    [voted |-> PollBlock_get_choice(u) # None, private_results |-> private_results]

(***************************************************************************)
(* SurveyBlock                                                             *)
(*                                                                         *)
(* A handler that raises (a KeyError on a tally entry that is missing)     *)
(* returns no response and none of its field changes is saved: its run     *)
(* has raised = TRUE and leaves the fields as they were.                   *)
(***************************************************************************)
\* A faulty clean_tally: the answers of a question that is already in the
\* tally are left as they are
SurveyBlock_clean_tally_outer_only(t) ==
    [key \in Keys(questions) |->
        IF key \notin DOMAIN t THEN [answer \in Keys(answers) |-> 0] ELSE t[key]]

\* clean_tally, on tally t: the tally it leaves
SurveyBlock_clean_tally(t) ==
    [key \in Keys(questions) |->
        IF key \notin DOMAIN t
        THEN [answer \in Keys(answers) |-> 0]
        ELSE [answer \in Keys(answers) |->
                 IF answer \in DOMAIN t[key] THEN t[key][answer] ELSE 0]]

\* remove_vote, for a user whose choices are a dict, on tally t
SurveyBlock_remove_vote(u, t) ==
    LET counted == {key \in DOMAIN choices[u] :
                       key \in Keys(questions) /\ choices[u][key] \in Keys(answers)}
    IN  [raised |-> \E key \in counted :
                        key \notin DOMAIN t \/ choices[u][key] \notin DOMAIN t[key],
         tally |-> [key \in DOMAIN t |->
                       IF key \in counted /\ choices[u][key] \in DOMAIN t[key]
                       THEN [t[key] EXCEPT ![choices[u][key]] = @ - 1]
                       ELSE t[key]],
         choices |-> NoneDict]

\* get_choices: the value returned, and the tally and choices it leaves
SurveyBlock_get_choices(u) ==
    LET rv == SurveyBlock_remove_vote(u, tally)
    IN  IF choices[u] = NoneDict
        THEN [raised |-> FALSE, value |-> NoneDict, tally |-> tally, choices |-> NoneDict]
        ELSE IF Keys(questions) # DOMAIN choices[u]
                \/ \E key \in DOMAIN choices[u] : choices[u][key] \notin Keys(answers)
        THEN [raised |-> rv.raised, value |-> NoneDict,
              tally |-> rv.tally, choices |-> rv.choices]
        ELSE [raised |-> FALSE, value |-> choices[u], tally |-> tally,
              choices |-> choices[u]]

\* bool(d) of a dict or None
Truthy(d) == d # NoneDict /\ DOMAIN d # {}

\* student_view, student_view_user_state and student_voted: the fields they
\* leave, which is what their call of get_choices leaves
SurveyBlock_read_run(u) ==
    LET gc == SurveyBlock_get_choices(u)
    IN  IF gc.raised
        THEN [raised |-> TRUE, tally |-> tally, choices |-> choices[u]]
        ELSE [raised |-> FALSE, tally |-> gc.tally, choices |-> gc.choices]

\* student_view: the context it renders
SurveyBlock_student_view_response(u) ==
    [choices |-> SurveyBlock_get_choices(u).value,
     private_results |-> private_results,
     can_vote |-> can_vote(submissions_count[u]),
     submissions_count |-> submissions_count[u],
     max_submissions |-> max_submissions,
     can_view_private_results |-> can_view_private_results(u)]

\* student_view_user_state: the JSON it returns
SurveyBlock_student_view_user_state_response(u) ==
    [choices |-> SurveyBlock_get_choices(u).value,
     tally |-> SurveyBlock_get_choices(u).tally,
     submissions_count |-> submissions_count[u]]

\* student_voted: the JSON it returns
SurveyBlock_student_voted_response(u) ==
    [voted |-> SurveyBlock_get_choices(u).value # NoneDict,
     private_results |-> private_results]

\* tally_detail: the (detail, total) it returns.  It leaves the tally
\* cleaned: SurveyBlock_clean_tally(tally).  The total is the sum of the entry
\* that source_tally.items() yields first; a dict yields its entries in no
\* order the code controls: `first` is a key of the cleaned tally.
SurveyBlock_tally_detail(u, first) ==
    LET source_tally == SurveyBlock_clean_tally(tally)
        mine == IF Truthy(choices[u]) THEN choices[u] ELSE <<>>
        qkeys == OrderedKeys(questions)
        akeys == OrderedKeys(answers)
        total == IF DOMAIN source_tally = {} THEN 0 ELSE SumValues(source_tally[first])
        count(q, i) == source_tally[qkeys[q]][akeys[i]]
        top(q) == IF \E i \in 1..Len(akeys) : count(q, i) > 0
                  THEN CHOOSE i \in 1..Len(akeys) :
                          /\ count(q, i) > 0
                          /\ \A j \in 1..Len(akeys) :
                                count(q, j) < count(q, i) \/ (count(q, j) = count(q, i) /\ j >= i)
                  ELSE 0
    IN  [detail |-> [q \in 1..Len(qkeys) |->
                        [key |-> qkeys[q],
                         answers |-> [i \in 1..Len(akeys) |->
                             [key |-> akeys[i],
                              count |-> count(q, i),
                              choice |-> qkeys[q] \in DOMAIN mine /\ mine[qkeys[q]] = akeys[i],
                              top |-> i = top(q),
                              percent |-> IF total = 0 THEN 0 ELSE Percent(count(q, i), total)]]]],
         total |-> total]

\* get_results: the tally it leaves stored and the events it publishes
SurveyBlock_get_results_run(u) ==
    IF private_results /\ ~can_view_private_results(u)
    THEN [tally |-> tally, events |-> <<>>]
    ELSE [tally |-> SurveyBlock_clean_tally(tally), events |-> <<"view_results">>]

\* get_results: the JSON it returns
SurveyBlock_get_results_response(u, first) ==
    LET td == SurveyBlock_tally_detail(u, first)
    IN  IF private_results /\ ~can_view_private_results(u)
        THEN [tally |-> <<>>, total |-> NoneDict, plural |-> FALSE]
        ELSE [tally |-> td.detail, total |-> Some(td.total), plural |-> td.total > 1]

\* What a vote that raised leaves behind
Raised(u) ==
    [raised |-> TRUE, tally |-> tally, choices |-> choices[u],
     submissions_count |-> submissions_count[u], events |-> <<>>]

\* vote: the result returned, the fields it leaves and the events published
SurveyBlock_vote_run(u, data) ==
    LET gc == SurveyBlock_get_choices(u)
        r_voted == IF Truthy(gc.value) /\ ~private_results
                   THEN [success |-> FALSE, errors |-> <<AlreadyVoted>>]
                   ELSE NoError
        count == IF ~Truthy(gc.value) THEN 0 ELSE submissions_count[u]
        r_limit == IF ~can_vote(count)
                   THEN [success |-> FALSE, errors |-> <<NoVotesLeft>>]
                   ELSE NoError
        r_questions ==
            IF DOMAIN data # Keys(questions)
            THEN [success |-> FALSE,
                  errors |-> <<QuestionsMismatch>>]
            ELSE NoError
        unknown == {key \in DOMAIN data : data[key] \notin Keys(answers)}
        r_answers ==
            IF unknown # {}
            THEN [success |-> FALSE,
                  errors |-> [i \in 1..Cardinality(unknown) |-> UnknownAnswer]]
            ELSE NoError
        result == Both(r_voted, Both(r_limit, Both(r_questions, r_answers)))
        \* Record the vote: self.choices is what get_choices left
        rv == IF Truthy(gc.choices)
              THEN SurveyBlock_remove_vote(u, gc.tally)
              ELSE [raised |-> FALSE, tally |-> gc.tally]
        cleaned == SurveyBlock_clean_tally(rv.tally)
    IN  IF gc.raised
        THEN Raised(u)
        ELSE IF ~result.success
        THEN [raised |-> FALSE, tally |-> gc.tally, choices |-> gc.choices,
              submissions_count |-> count, events |-> <<>>,
              result |-> result @@ [can_vote |-> can_vote(count)]]
        ELSE IF rv.raised
        THEN Raised(u)
        ELSE [raised |-> FALSE,
              tally |-> [key \in DOMAIN cleaned |->
                            [cleaned[key] EXCEPT ![data[key]] = @ + 1]],
              choices |-> data,
              submissions_count |-> count + 1,
              events |-> send_vote_event,
              result |-> result @@ [can_vote |-> can_vote(count + 1),
                                    submissions_count |-> count + 1,
                                    max_submissions |-> max_submissions]]

\* studio_submit down to its check of result['success']: the result and the
\* values parsed from the request
SurveyBlock_studio_submit_parse(data) ==
    LET new_feedback == Strip(Get(data, "feedback", ""))
        new_name == Strip(Get(data, "display_name", ""))
        new_private == Get(data, "private_results", FALSE)
        ms == get_max_submissions(data, new_private)
        gathered_a == gather_items(data, "Answer", "answers", FALSE)
        gathered_q == gather_items(data, "Question", "questions", TRUE)
    IN  [result |-> Both(ms.result, Both(gathered_a.result, gathered_q.result)),
         answers |-> gathered_a.items, questions |-> gathered_q.items,
         feedback |-> new_feedback, private_results |-> new_private,
         max_submissions |-> ms.value, block_name |-> new_name]

\* studio_submit: the result returned and the fields it leaves.  `parsed` is
\* SurveyBlock_studio_submit_parse(data), which no field has a part in.
SurveyBlock_studio_submit_run(parsed) ==
    IF ~parsed.result.success
    THEN [result |-> parsed.result, answers |-> answers, questions |-> questions,
          feedback |-> feedback, private_results |-> private_results,
          max_submissions |-> max_submissions, block_name |-> block_name]
    ELSE parsed

(***************************************************************************)
(* Requests: the inputs the handlers are run with.                         *)
(***************************************************************************)
Range(seq) == {seq[i] : i \in 1..Len(seq)}
Without(d, key) == [k \in DOMAIN d \ {key} |-> d[k]]

PollKeyOrder == <<"R", "B">>
QuestionKeyOrder == <<"enjoy", "learn">>
AnswerKeyOrder == <<"Y", "N">>

\* Submitted items, as the studio editor sends them; blanks around a key or
\* a label are what an author may type.
ImageItem(key) == [key |-> " " \o key, label |-> key \o " label ", img |-> "", img_alt |-> ""]
TextItem(key) == [key |-> key \o " ", label |-> " " \o key \o " label"]
ImageItems(keys) == List([i \in 1..Len(keys) |-> ImageItem(keys[i])])
TextItems(keys) == List([i \in 1..Len(keys) |-> TextItem(keys[i])])

\* private_results and max_submissions that pass validation
Limits ==
    {[private_results |-> FALSE, max_submissions |-> "1"],
     [private_results |-> TRUE, max_submissions |-> " 2"],
     [private_results |-> TRUE, max_submissions |-> "0"],
     [private_results |-> TRUE, max_submissions |-> "-1"]}

PollText == [question |-> " Which? ", feedback |-> "Thanks ", display_name |-> " My poll"]
SurveyText == [feedback |-> "Thanks ", display_name |-> " My survey"]

\* The answers an author leaves in the Poll, and the answers and questions
\* an author leaves in the Survey
PollLists == {<<"R", "B">>, <<"R">>, <<"B">>}
SurveyLists ==
    {<< <<"Y", "N">>, <<"enjoy", "learn">> >>,
     << <<"Y">>, <<"enjoy", "learn">> >>,
     << <<"Y", "N">>, <<"enjoy">> >>}

ValidPollForms ==
    {PollText @@ limit @@ [answers |-> ImageItems(keys)] :
        limit \in Limits, keys \in PollLists}

ValidSurveyForms ==
    {SurveyText @@ limit
        @@ [answers |-> TextItems(keys[1]), questions |-> ImageItems(keys[2])] :
        limit \in Limits \ {[private_results |-> TRUE, max_submissions |-> "-1"]},
        keys \in SurveyLists}

\* Item lists that fail validation
BadItemLists ==
    {Scalar,
     List(<<>>),
     List(<<Scalar, ImageItem("R")>>),
     List(<<[label |-> "no key"]>>),
     List(<<[key |-> "R"]>>),
     List(<<[key |-> "R", img |-> "/static/r.png"]>>)}

\* Form f with one thing wrong, or several; `lists` are its item lists
Broken(f, lists) ==
    {Without(f, "max_submissions"),
     [f EXCEPT !.max_submissions = "many"],
     [f EXCEPT !.max_submissions = "2", !.private_results = FALSE],
     Without([f EXCEPT !.max_submissions = "0"], "private_results"),
     Without(Without(f, lists[1]), "max_submissions")}
    \cup {[f EXCEPT ![lists[i]] = bad] : i \in 1..Len(lists), bad \in BadItemLists}

BasePollForm ==
    PollText @@ [private_results |-> TRUE, max_submissions |-> "1",
                 answers |-> ImageItems(PollKeyOrder)]
BaseSurveyForm ==
    SurveyText @@ [private_results |-> TRUE, max_submissions |-> "1",
                   answers |-> TextItems(AnswerKeyOrder),
                   questions |-> ImageItems(QuestionKeyOrder)]

PollForms ==
    ValidPollForms
    \cup Broken(BasePollForm, <<"answers">>)
    \cup {Without(BasePollForm, "question"), [BasePollForm EXCEPT !.question = "  "]}

SurveyForms ==
    ValidSurveyForms \cup Broken(BaseSurveyForm, <<"answers", "questions">>)

\* Each form with what studio_submit parses from it (the parse reads no
\* field, so it is evaluated once per form)
PollRequests ==
    {[data |-> data, parsed |-> PollBlock_studio_submit_parse(data)] : data \in PollForms}
SurveyRequests ==
    {[data |-> data, parsed |-> SurveyBlock_studio_submit_parse(data)] : data \in SurveyForms}

\* The data of a Poll vote: a choice (of a key the poll may not have), or none
PollVotes == {[choice |-> key] : key \in PollKeys \cup {"?"}} \cup {<<>>}

\* The data of a Survey vote: an answer to every question, or to the first
\* one only, an unknown answer, or nothing
SurveyVotes ==
    {[enjoy |-> "Y", learn |-> "Y"], [enjoy |-> "Y", learn |-> "N"],
     [enjoy |-> "N", learn |-> "Y"], [enjoy |-> "N", learn |-> "N"],
     [enjoy |-> "Y"], [enjoy |-> "N"],
     [enjoy |-> "?", learn |-> "Y"], [enjoy |-> "?"], <<>>}

\* The users who vote in the Survey; the others only look
SurveyVoters == {"u1"}

(***************************************************************************)
(* The initial state: a block with the default field values, cut to the    *)
(* keys of the model, that no user has seen yet.                           *)
(***************************************************************************)
InitPoll ==
    /\ block = "poll"
    /\ answers = [i \in 1..Len(PollKeyOrder) |->
                     [key |-> PollKeyOrder[i], label |-> PollKeyOrder[i] \o " label",
                      img |-> None, img_alt |-> None]]
    /\ questions = <<>>
    /\ question = "What is your favorite color?"
    /\ display_name = "Poll"
    /\ block_name = None
    /\ tally = [key \in PollKeys |-> 0]

InitSurvey ==
    /\ block = "survey"
    /\ answers = [i \in 1..Len(AnswerKeyOrder) |->
                     [key |-> AnswerKeyOrder[i], label |-> AnswerKeyOrder[i] \o " label"]]
    /\ questions = [i \in 1..Len(QuestionKeyOrder) |->
                       [key |-> QuestionKeyOrder[i],
                        label |-> QuestionKeyOrder[i] \o " label",
                        img |-> None, img_alt |-> None]]
    /\ question = None
    /\ display_name = "Survey"
    /\ block_name = "Poll"
    /\ tally = [key \in QuestionKeys |-> [answer \in AnswerKeys |-> 0]]

Init ==
    /\ InitPoll \/ InitSurvey
    /\ feedback = ""
    /\ private_results = FALSE
    /\ max_submissions = 1
    /\ choice = [u \in Users |-> None]
    /\ choices = [u \in Users |-> <<>>]
    /\ submissions_count = [u \in Users |-> 0]
    /\ last = "ok"
    /\ accepted = [u \in Users |-> 0]

(***************************************************************************)
(* The handlers, as actions.  `last` is "ok" when the handler that ran     *)
(* last did what it was asked, and otherwise says which handler it was and *)
(* how it ended: "rejected" (success false), "hidden" (results withheld)   *)
(* or "raised".                                                            *)
(***************************************************************************)
\* The counters of a tally are within the bound of the model
Bounded(t) ==
    \A key \in DOMAIN t :
        IF block = "poll"
        THEN t[key] \in (0 - MaxTally)..MaxTally
        ELSE \A answer \in DOMAIN t[key] : t[key][answer] \in (0 - MaxTally)..MaxTally

Ended(op, status) == IF status = "ok" THEN "ok" ELSE op \o " " \o status

PollBlock_student_view(u) ==
    /\ block = "poll"
    /\ tally' = PollBlock_student_view_run(u)
    /\ last' = Ended("student_view", "ok")
    /\ UNCHANGED <<block, config, user_state, accepted>>

PollBlock_student_view_user_state(u) ==
    /\ block = "poll"
    /\ last' = Ended("student_view_user_state", "ok")
    /\ UNCHANGED <<block, config, tally, user_state, accepted>>

PollBlock_student_voted(u) ==
    /\ block = "poll"
    /\ last' = Ended("student_voted", "ok")
    /\ UNCHANGED <<block, config, tally, user_state, accepted>>

PollBlock_get_results(u) ==
    /\ block = "poll"
    /\ \E run \in {PollBlock_get_results_run(u)} :
        /\ tally' = run.tally
        /\ last' = Ended("get_results", IF run.events = <<>> THEN "hidden" ELSE "ok")
        /\ UNCHANGED <<block, config, user_state, accepted>>

PollBlock_vote(u, data) ==
    /\ block = "poll"
    /\ \E run \in {PollBlock_vote_run(u, data)} :
        /\ run.submissions_count <= MaxCount
        /\ Bounded(run.tally)
        /\ tally' = run.tally
        /\ choice' = [choice EXCEPT ![u] = run.choice]
        /\ submissions_count' = [submissions_count EXCEPT ![u] = run.submissions_count]
        /\ last' = Ended("vote", IF run.result.success THEN "ok" ELSE "rejected")
        /\ accepted' = [accepted EXCEPT ![u] = IF run.result.success THEN @ + 1 ELSE @]
        /\ UNCHANGED <<block, config, choices>>

\* A faulty studio_submit: the tally is reconciled with the new answers at
\* once
PollBlock_studio_submit_cleans(request) ==
    /\ block = "poll"
    /\ \E run \in {PollBlock_studio_submit_run(request.parsed)} :
        /\ answers' = run.answers
        /\ question' = run.question
        /\ feedback' = run.feedback
        /\ private_results' = run.private_results
        /\ display_name' = run.display_name
        /\ max_submissions' = run.max_submissions
        /\ tally' = [key \in Keys(run.answers) |->
                         IF key \in DOMAIN tally THEN tally[key] ELSE 0]
        /\ last' = Ended("studio_submit", IF run.result.success THEN "ok" ELSE "rejected")
        /\ accepted' = IF run.result.success THEN [u \in Users |-> 0] ELSE accepted
        /\ UNCHANGED <<block, questions, block_name, user_state>>

PollBlock_studio_submit(request) ==
    /\ block = "poll"
    /\ \E run \in {PollBlock_studio_submit_run(request.parsed)} :
        /\ answers' = run.answers
        /\ question' = run.question
        /\ feedback' = run.feedback
        /\ private_results' = run.private_results
        /\ display_name' = run.display_name
        /\ max_submissions' = run.max_submissions
        /\ last' = Ended("studio_submit", IF run.result.success THEN "ok" ELSE "rejected")
        /\ accepted' = IF run.result.success THEN [u \in Users |-> 0] ELSE accepted
        /\ UNCHANGED <<block, questions, block_name, tally, user_state>>

\* A Survey handler that reads the user's choices with get_choices
SurveyRead(op, u) ==
    /\ block = "survey"
    /\ \E run \in {SurveyBlock_read_run(u)} :
        /\ Bounded(run.tally)
        /\ tally' = run.tally
        /\ choices' = [choices EXCEPT ![u] = run.choices]
        /\ last' = Ended(op, IF run.raised THEN "raised" ELSE "ok")
        /\ UNCHANGED <<block, config, choice, submissions_count, accepted>>

SurveyBlock_student_view(u) == SurveyRead("student_view", u)

SurveyBlock_student_view_user_state(u) == SurveyRead("student_view_user_state", u)

SurveyBlock_student_voted(u) == SurveyRead("student_voted", u)

SurveyBlock_get_results(u) ==
    /\ block = "survey"
    /\ \E run \in {SurveyBlock_get_results_run(u)} :
        /\ tally' = run.tally
        /\ last' = Ended("get_results", IF run.events = <<>> THEN "hidden" ELSE "ok")
        /\ UNCHANGED <<block, config, user_state, accepted>>

SurveyBlock_vote(u, data) ==
    /\ block = "survey"
    /\ \E run \in {SurveyBlock_vote_run(u, data)} :
        /\ run.submissions_count <= MaxCount
        /\ Bounded(run.tally)
        /\ tally' = run.tally
        /\ choices' = [choices EXCEPT ![u] = run.choices]
        /\ submissions_count' = [submissions_count EXCEPT ![u] = run.submissions_count]
        /\ last' = Ended("vote", IF run.raised THEN "raised"
                                      ELSE IF run.result.success THEN "ok" ELSE "rejected")
        /\ accepted' = [accepted EXCEPT ![u] = IF ~run.raised /\ run.result.success
                                                    THEN @ + 1 ELSE @]
        /\ UNCHANGED <<block, config, choice>>

SurveyBlock_studio_submit(request) ==
    /\ block = "survey"
    /\ \E run \in {SurveyBlock_studio_submit_run(request.parsed)} :
        /\ answers' = run.answers
        /\ questions' = run.questions
        /\ feedback' = run.feedback
        /\ private_results' = run.private_results
        /\ max_submissions' = run.max_submissions
        /\ block_name' = run.block_name
        /\ last' = Ended("studio_submit", IF run.result.success THEN "ok" ELSE "rejected")
        /\ accepted' = IF run.result.success THEN [u \in Users |-> 0] ELSE accepted
        /\ UNCHANGED <<block, question, display_name, tally, user_state>>

Next ==
    \/ \E u \in Users : PollBlock_student_view(u)
    \/ \E u \in Users : PollBlock_student_view_user_state(u)
    \/ \E u \in Users : PollBlock_student_voted(u)
    \/ \E u \in Users : PollBlock_get_results(u)
    \/ \E u \in Users, data \in PollVotes : PollBlock_vote(u, data)
    \/ \E request \in PollRequests : PollBlock_studio_submit(request)
    \/ \E u \in Users : SurveyBlock_student_view(u)
    \/ \E u \in Users : SurveyBlock_student_view_user_state(u)
    \/ \E u \in Users : SurveyBlock_student_voted(u)
    \/ \E u \in Users : SurveyBlock_get_results(u)
    \/ \E u \in SurveyVoters, data \in SurveyVotes : SurveyBlock_vote(u, data)
    \/ \E request \in SurveyRequests : SurveyBlock_studio_submit(request)

Spec == Init /\ [][Next]_vars

(***************************************************************************)
(* The Poll from its defaults (a tally of zeros, no user with a choice)    *)
(* when no studio_submit changes the keys of the answers: the request is   *)
(* rejected, or it stores answers with the keys the Poll has.              *)
(***************************************************************************)
InitPollFixedAnswers == Init /\ block = "poll"

PollBlock_studio_submit_same_answers(request) ==
    /\ PollBlock_studio_submit(request)
    /\ Keys(answers') = Keys(answers)

NextPollFixedAnswers ==
    \/ \E u \in Users : PollBlock_student_view(u)
    \/ \E u \in Users : PollBlock_student_view_user_state(u)
    \/ \E u \in Users : PollBlock_student_voted(u)
    \/ \E u \in Users : PollBlock_get_results(u)
    \/ \E u \in Users, data \in PollVotes : PollBlock_vote(u, data)
    \/ \E request \in PollRequests : PollBlock_studio_submit_same_answers(request)

SpecPollFixedAnswers == InitPollFixedAnswers /\ [][NextPollFixedAnswers]_vars

(***************************************************************************)
(* The properties of the specification document, each stated on the        *)
(* handlers above and checked in every reachable state.                    *)
(***************************************************************************)
\* The keys of the rows of a tally detail
RowKeys(detail) == {detail[i].key : i \in 1..Len(detail)}

\* The recorded choices of a Survey user are still valid
ValidChoices(u) ==
    /\ choices[u] # NoneDict
    /\ DOMAIN choices[u] = Keys(questions)
    /\ \A key \in DOMAIN choices[u] : choices[u][key] \in Keys(answers)

\* C1: after PollBlock.clean_tally the keys of the tally are exactly the
\* configured answer keys: an answer missing from the tally is added with
\* count 0, a key that is no configured answer is deleted, and a key in both
\* keeps its count.  A vote that is recorded and tally_detail go through it.
C1_PollCleanTally ==
    block = "poll" =>
        \A after \in {PollBlock_clean_tally(tally)} :
            /\ DOMAIN after = Keys(answers)
            /\ \A key \in Keys(answers) \ DOMAIN tally : after[key] = 0
            /\ \A key \in Keys(answers) \cap DOMAIN tally : after[key] = tally[key]
            /\ \A u \in Users :
                  /\ RowKeys(PollBlock_tally_detail(u).detail) = Keys(answers)
                  /\ \A data \in PollVotes :
                        \A run \in {PollBlock_vote_run(u, data)} :
                            run.result.success => DOMAIN run.tally = Keys(answers)

\* A Poll tally that has a key to delete and lacks a key to add
C1_StaleAndMissing ==
    /\ block = "poll"
    /\ DOMAIN tally \ Keys(answers) # {}
    /\ Keys(answers) \ DOMAIN tally # {}

\* C2: after SurveyBlock.clean_tally the outer keys of the tally are exactly
\* the configured question keys and the inner keys of every question exactly
\* the configured answer keys; a (question, answer) pair that was in the
\* tally and is still configured keeps its count, a pair that is added has
\* count 0.
C2_SurveyCleanTally ==
    block = "survey" =>
        \A after \in {SurveyBlock_clean_tally(tally)} :
            /\ DOMAIN after = Keys(questions)
            /\ \A key \in Keys(questions) :
                  /\ DOMAIN after[key] = Keys(answers)
                  /\ \A answer \in Keys(answers) :
                        after[key][answer] =
                            IF key \in DOMAIN tally /\ answer \in DOMAIN tally[key]
                            THEN tally[key][answer]
                            ELSE 0

\* A Survey tally where a question holds a counted vote next to an answer
\* that is configured no more
C2_StaleAnswerBesideVotes ==
    /\ block = "survey"
    /\ \E key \in Keys(questions) \cap DOMAIN tally :
          /\ DOMAIN tally[key] \ Keys(answers) # {}
          /\ \E answer \in Keys(answers) \cap DOMAIN tally[key] : tally[key][answer] > 0

\* C3: no tally that get_results, student_view or student_view_user_state
\* returns, in the Poll or the Survey, has a key that is not a currently
\* configured question or answer key.
C3_ReturnedTallyConfigured ==
    /\ block = "poll" =>
          \A u \in Users :
              /\ RowKeys(PollBlock_get_results_response(u).tally) \subseteq Keys(answers)
              /\ "tally" \in DOMAIN PollBlock_student_view_response(u) =>
                    RowKeys(PollBlock_student_view_response(u).tally) \subseteq Keys(answers)
              /\ DOMAIN PollBlock_student_view_user_state_response(u).tally
                    \subseteq Keys(answers)
    /\ block = "survey" =>
          \A u \in Users :
              /\ \A first \in Keys(questions) :
                    LET detail == SurveyBlock_get_results_response(u, first).tally
                    IN  /\ RowKeys(detail) \subseteq Keys(questions)
                        /\ \A q \in 1..Len(detail) :
                              RowKeys(detail[q].answers) \subseteq Keys(answers)
              /\ ~SurveyBlock_get_choices(u).raised =>
                    LET returned == SurveyBlock_student_view_user_state_response(u).tally
                    IN  /\ DOMAIN returned \subseteq Keys(questions)
                        /\ \A key \in DOMAIN returned :
                              DOMAIN returned[key] \subseteq Keys(answers)

\* C4: private_results is false only if max_submissions is 1, and a
\* studio_submit with an integer max_submissions other than 1 and
\* private_results false is rejected and leaves the configuration as it is.
Conflicting(data) ==
    /\ "max_submissions" \in DOMAIN data
    /\ IntOk(data["max_submissions"])
    /\ IntOf(data["max_submissions"]) # 1
    /\ ~Get(data, "private_results", FALSE)

ConflictingPollRequests == {request \in PollRequests : Conflicting(request.data)}
ConflictingSurveyRequests == {request \in SurveyRequests : Conflicting(request.data)}

C4_PublicResultsOneSubmission ==
    /\ ~private_results => max_submissions = 1
    /\ block = "poll" =>
          \A request \in ConflictingPollRequests :
                  \A run \in {PollBlock_studio_submit_run(request.parsed)} :
                      /\ ~run.result.success
                      /\ PrivateResultsConflict \in Range(run.result.errors)
                      /\ <<run.answers, run.question, run.feedback, run.private_results,
                           run.display_name, run.max_submissions>>
                         = <<answers, question, feedback, private_results,
                             display_name, max_submissions>>
    /\ block = "survey" =>
          \A request \in ConflictingSurveyRequests :
                  \A run \in {SurveyBlock_studio_submit_run(request.parsed)} :
                      /\ ~run.result.success
                      /\ PrivateResultsConflict \in Range(run.result.errors)
                      /\ <<run.answers, run.questions, run.feedback, run.private_results,
                           run.max_submissions, run.block_name>>
                         = <<answers, questions, feedback, private_results,
                             max_submissions, block_name>>

\* A configuration with private results and two submissions that the last
\* studio_submit, a rejected one, has left as it was
C4_RejectedOnPrivateConfig ==
    /\ private_results
    /\ max_submissions = 2
    /\ last = "studio_submit rejected"

\* C5: while private_results is false, a vote of a user whose recorded choice
\* (Poll) or choices (Survey) are valid for the current configuration is
\* rejected with "You have already voted in this poll.", and the tally, the
\* user's choice or choices and the user's submissions_count stay as they are.
C5_AlreadyVotedChangesNothing ==
    ~private_results =>
        /\ block = "poll" =>
              \A u \in Users, data \in PollVotes :
                  PollBlock_get_choice(u) # None =>
                      \A run \in {PollBlock_vote_run(u, data)} :
                          /\ ~run.result.success
                          /\ AlreadyVoted \in Range(run.result.errors)
                          /\ run.tally = tally
                          /\ run.choice = choice[u]
                          /\ run.submissions_count = submissions_count[u]
        /\ block = "survey" =>
              \A u \in Users, data \in SurveyVotes :
                  ValidChoices(u) =>
                      \A run \in {SurveyBlock_vote_run(u, data)} :
                          /\ ~run.raised
                          /\ ~run.result.success
                          /\ AlreadyVoted \in Range(run.result.errors)
                          /\ run.tally = tally
                          /\ run.choices = choices[u]
                          /\ run.submissions_count = submissions_count[u]

\* A vote has just been rejected while the results are public and every user
\* who may have sent it has a valid recorded choice
C5_RevoteRejected ==
    /\ last = "vote rejected"
    /\ ~private_results
    /\ \/ block = "poll" /\ \A u \in Users : PollBlock_get_choice(u) # None
       \/ block = "survey" /\ \A u \in SurveyVoters : ValidChoices(u)

\* C6 as the document has it: while max_submissions >= 1 no user has more
\* accepted votes than max_submissions since the configuration was last
\* changed, a vote of a user with submissions_count >= max_submissions is
\* rejected with "You have already voted as many times as you are allowed.",
\* and while max_submissions is 0 no vote is rejected with that error.  The
\* vote is one of a user whose recorded choice is valid: the vote of another
\* user starts from a submissions_count of 0.
C6_LimitRejectsWithItsError ==
    /\ max_submissions >= 1 =>
          \A u \in Users : accepted[u] <= max_submissions
    /\ (max_submissions >= 1 /\ block = "poll") =>
          \A u \in Users, data \in PollVotes :
              (PollBlock_get_choice(u) # None /\ submissions_count[u] >= max_submissions) =>
                  \A run \in {PollBlock_vote_run(u, data)} :
                      ~run.result.success /\ NoVotesLeft \in Range(run.result.errors)
    /\ (max_submissions >= 1 /\ block = "survey") =>
          \A u \in Users, data \in SurveyVotes :
              (ValidChoices(u) /\ submissions_count[u] >= max_submissions) =>
                  \A run \in {SurveyBlock_vote_run(u, data)} :
                      /\ ~run.raised
                      /\ ~run.result.success
                      /\ NoVotesLeft \in Range(run.result.errors)
    /\ (max_submissions = 0 /\ block = "poll") =>
          \A u \in Users, data \in PollVotes :
              NoVotesLeft \notin Range(PollBlock_vote_run(u, data).result.errors)
    /\ (max_submissions = 0 /\ block = "survey") =>
          \A u \in Users, data \in SurveyVotes :
              \A run \in {SurveyBlock_vote_run(u, data)} :
                  ~run.raised => NoVotesLeft \notin Range(run.result.errors)

\* The data of a Poll vote names a configured answer
NamesAnswer(data) == "choice" \in DOMAIN data /\ data.choice \in Keys(answers)

\* C6: while max_submissions >= 1 no user has more accepted votes than
\* max_submissions since the configuration was last changed: a vote of a user
\* with a valid recorded choice and submissions_count >= max_submissions is
\* rejected.  A Survey vote then has "You have already voted as many times as
\* you are allowed." among its errors; a Poll vote has it, as its only error,
\* when private_results is true and the request names a configured answer,
\* and is otherwise rejected by an earlier check with that check's error
\* alone.  While max_submissions is 0 no vote is rejected with that error.
C6_SubmissionLimit ==
    /\ max_submissions >= 1 =>
          \A u \in Users : accepted[u] <= max_submissions
    /\ (max_submissions >= 1 /\ block = "poll") =>
          \A u \in Users, data \in PollVotes :
              (PollBlock_get_choice(u) # None /\ submissions_count[u] >= max_submissions) =>
                  \A run \in {PollBlock_vote_run(u, data)} :
                      /\ ~run.result.success
                      /\ run.result.errors =
                            IF ~private_results THEN <<AlreadyVoted>>
                            ELSE IF "choice" \notin DOMAIN data
                            THEN <<"Answer not included with request.">>
                            ELSE IF ~NamesAnswer(data)
                            THEN <<"No key \"{choice}\" in answers table.">>
                            ELSE <<NoVotesLeft>>
    /\ (max_submissions >= 1 /\ block = "survey") =>
          \A u \in Users, data \in SurveyVotes :
              (ValidChoices(u) /\ submissions_count[u] >= max_submissions) =>
                  \A run \in {SurveyBlock_vote_run(u, data)} :
                      /\ ~run.raised
                      /\ ~run.result.success
                      /\ NoVotesLeft \in Range(run.result.errors)
    /\ (max_submissions = 0 /\ block = "poll") =>
          \A u \in Users, data \in PollVotes :
              NoVotesLeft \notin Range(PollBlock_vote_run(u, data).result.errors)
    /\ (max_submissions = 0 /\ block = "survey") =>
          \A u \in Users, data \in SurveyVotes :
              \A run \in {SurveyBlock_vote_run(u, data)} :
                  ~run.raised => NoVotesLeft \notin Range(run.result.errors)

\* A user has had both votes a limit of two allows accepted, and a vote has
\* just been rejected
C6_LimitUsedUp ==
    /\ max_submissions = 2
    /\ \E u \in Users : accepted[u] = 2 /\ submissions_count[u] = 2
    /\ last = "vote rejected"

\* C7: a Poll user whose chosen answer is configured no more has no choice
\* according to get_choice, and a vote of that user for a configured answer
\* is accepted whatever the user's submissions_count is.  (No handler but an
\* accepted vote writes the stored choice.)
C7_StaleChoiceVotesAgain ==
    block = "poll" =>
        \A u \in Users :
            (choice[u] # None /\ choice[u] \notin Keys(answers)) =>
                /\ PollBlock_get_choice(u) = None
                /\ \A data \in PollVotes :
                      NamesAnswer(data) =>
                          \A run \in {PollBlock_vote_run(u, data)} :
                              run.result.success /\ run.choice = data.choice

\* C8: the result of every vote and of every studio_submit, of the Poll and
\* of the Survey, has success false exactly when its errors are not empty.
NoErrorsIffSuccess(result) == result.success <=> (result.errors = <<>>)

C8_SuccessIffNoErrors ==
    /\ block = "poll" =>
          /\ \A u \in Users, data \in PollVotes :
                NoErrorsIffSuccess(PollBlock_vote_run(u, data).result)
          /\ \A request \in PollRequests :
                NoErrorsIffSuccess(PollBlock_studio_submit_run(request.parsed).result)
    /\ block = "survey" =>
          /\ \A u \in Users, data \in SurveyVotes :
                \A run \in {SurveyBlock_vote_run(u, data)} :
                    ~run.raised => NoErrorsIffSuccess(run.result)
          /\ \A request \in SurveyRequests :
                NoErrorsIffSuccess(SurveyBlock_studio_submit_run(request.parsed).result)

\* A studio_submit has just been rejected on a configuration under which a
\* vote was accepted
C8_RejectedAfterAccepted ==
    /\ last = "studio_submit rejected"
    /\ \E u \in Users : accepted[u] >= 1

\* The configuration fields a Poll and a Survey studio_submit writes, as the
\* run leaves them and as they are stored
PollRunFields(run) ==
    <<run.answers, run.question, run.feedback, run.private_results,
      run.display_name, run.max_submissions>>
PollFields ==
    <<answers, question, feedback, private_results, display_name, max_submissions>>
SurveyRunFields(run) ==
    <<run.answers, run.questions, run.feedback, run.private_results,
      run.max_submissions, run.block_name>>
SurveyFields ==
    <<answers, questions, feedback, private_results, max_submissions, block_name>>

\* The key and the label of every stored item are those of the submitted item
SameKeysAndLabels(stored, submitted) ==
    /\ Len(stored) = Len(submitted)
    /\ \A i \in 1..Len(stored) :
          stored[i].key = submitted[i].key /\ stored[i].label = submitted[i].label

\* C9 as the document has it: a studio_submit that fails a validation
\* changes no configuration field, and one that passes them all replaces
\* every field by the submitted value (max_submissions by the integer the
\* submitted numeral stands for).
C9_StoresSubmittedValues ==
    /\ block = "poll" =>
          \A request \in PollRequests :
              LET run == PollBlock_studio_submit_run(request.parsed)
                  data == request.data
              IN  IF ~run.result.success
                  THEN PollRunFields(run) = PollFields
                  ELSE /\ run.question = data.question
                       /\ run.feedback = data.feedback
                       /\ run.display_name = data.display_name
                       /\ run.private_results = data.private_results
                       /\ run.max_submissions = IntOf(data.max_submissions)
                       /\ SameKeysAndLabels(run.answers, data.answers.list)
    /\ block = "survey" =>
          \A request \in SurveyRequests :
              LET run == SurveyBlock_studio_submit_run(request.parsed)
                  data == request.data
              IN  IF ~run.result.success
                  THEN SurveyRunFields(run) = SurveyFields
                  ELSE /\ run.feedback = data.feedback
                       /\ run.block_name = data.display_name
                       /\ run.private_results = data.private_results
                       /\ run.max_submissions = IntOf(data.max_submissions)
                       /\ SameKeysAndLabels(run.answers, data.answers.list)
                       /\ SameKeysAndLabels(run.questions, data.questions.list)

\* The items stored for a submitted list: every text without the blanks
\* around it, an image and its alternative text only where the items have one
Stored(submitted, image) ==
    [i \in 1..Len(submitted) |->
        IF image
        THEN [key |-> Strip(submitted[i].key), label |-> Strip(submitted[i].label),
              img |-> Strip(Get(submitted[i], "img", "")),
              img_alt |-> Strip(Get(submitted[i], "img_alt", ""))]
        ELSE [key |-> Strip(submitted[i].key), label |-> Strip(submitted[i].label)]]

\* What studio_submit parses from every form: the forms that pass validation
\* are the valid ones, and the values parsed from one of them are its texts
\* without the blanks around them, max_submissions as the integer of its
\* numeral and the items rebuilt from their stripped texts
PollFormsParsed ==
    \A request \in PollRequests :
        \A parsed \in {request.parsed}, data \in {request.data} :
            /\ parsed.result.success <=> data \in ValidPollForms
            /\ parsed.result.success =>
                  /\ parsed.question = Strip(data.question)
                  /\ parsed.feedback = Strip(data.feedback)
                  /\ parsed.display_name = Strip(data.display_name)
                  /\ parsed.private_results = data.private_results
                  /\ parsed.max_submissions = IntOf(data.max_submissions)
                  /\ parsed.answers = Stored(data.answers.list, TRUE)

SurveyFormsParsed ==
    \A request \in SurveyRequests :
        \A parsed \in {request.parsed}, data \in {request.data} :
            /\ parsed.result.success <=> data \in ValidSurveyForms
            /\ parsed.result.success =>
                  /\ parsed.feedback = Strip(data.feedback)
                  /\ parsed.block_name = Strip(data.display_name)
                  /\ parsed.private_results = data.private_results
                  /\ parsed.max_submissions = IntOf(data.max_submissions)
                  /\ parsed.answers = Stored(data.answers.list, FALSE)
                  /\ parsed.questions = Stored(data.questions.list, TRUE)

\* C9: a studio_submit that fails a validation (a request of the forms that
\* are broken: no question, a bad or empty list of items, an item without key
\* or label, max_submissions missing or no integer, the conflict of
\* private_results with max_submissions) changes no configuration field, and
\* one that passes them all replaces every field by the value parsed from
\* the request: a text without the blanks around it, max_submissions as the
\* integer of its numeral, the items rebuilt from their stripped texts.
C9_AllOrNothing ==
    /\ PollFormsParsed
    /\ SurveyFormsParsed
    /\ block = "poll" =>
          \A request \in PollRequests :
              \A run \in {PollBlock_studio_submit_run(request.parsed)} :
                  /\ run.result = request.parsed.result
                  /\ PollRunFields(run) = IF run.result.success
                                          THEN PollRunFields(request.parsed)
                                          ELSE PollFields
    /\ block = "survey" =>
          \A request \in SurveyRequests :
              \A run \in {SurveyBlock_studio_submit_run(request.parsed)} :
                  /\ run.result = request.parsed.result
                  /\ SurveyRunFields(run) = IF run.result.success
                                            THEN SurveyRunFields(request.parsed)
                                            ELSE SurveyFields

\* A studio_submit stored its stripped texts, and the last one, rejected,
\* left them there
C9_RejectedAfterStored ==
    /\ feedback = "Thanks"
    /\ question = "Which?"
    /\ last = "studio_submit rejected"

\* C10: get_results, while private_results is true and the user may not view
\* private results, returns an empty tally and no total, publishes no event
\* and leaves the tally as it is; in every other case it publishes one
\* view_results event, leaves the tally reconciled and returns the detail and
\* the total of the reconciled tally.
C10_GetResults ==
    /\ block = "poll" =>
          \A u \in Users :
              \A run \in {PollBlock_get_results_run(u)},
                 response \in {PollBlock_get_results_response(u)},
                 cleaned \in {PollBlock_clean_tally(tally)} :
                  IF private_results /\ ~can_view_private_results(u)
                  THEN /\ response.tally = <<>>
                       /\ response.total = NoneDict
                       /\ run.events = <<>>
                       /\ run.tally = tally
                  ELSE /\ run.events = <<"view_results">>
                       /\ run.tally = cleaned
                       /\ RowKeys(response.tally) = Keys(answers)
                       /\ \A i \in 1..Len(response.tally) :
                             response.tally[i].count = cleaned[response.tally[i].key]
                       /\ response.total = Some(SumValues(cleaned))
    /\ block = "survey" =>
          \A u \in Users, first \in Keys(questions) :
              \A run \in {SurveyBlock_get_results_run(u)},
                 response \in {SurveyBlock_get_results_response(u, first)},
                 cleaned \in {SurveyBlock_clean_tally(tally)} :
                  IF private_results /\ ~can_view_private_results(u)
                  THEN /\ response.tally = <<>>
                       /\ response.total = NoneDict
                       /\ run.events = <<>>
                       /\ run.tally = tally
                  ELSE /\ run.events = <<"view_results">>
                       /\ run.tally = cleaned
                       /\ RowKeys(response.tally) = Keys(questions)
                       /\ \A q \in 1..Len(response.tally) :
                             LET row == response.tally[q]
                             IN  /\ RowKeys(row.answers) = Keys(answers)
                                 /\ \A i \in 1..Len(row.answers) :
                                       row.answers[i].count
                                           = cleaned[row.key][row.answers[i].key]
                       /\ response.total = Some(SumValues(cleaned[first]))

\* The results have just been withheld from a user, and the tally is still
\* the one a studio_submit left unreconciled
C10_WithheldAndUntouched ==
    /\ last = "get_results hidden"
    /\ private_results
    /\ \/ block = "poll" /\ DOMAIN tally # Keys(answers)
       \/ block = "survey" /\ DOMAIN tally # Keys(questions)

\* The conditions of a Survey vote: the user has no valid recorded choices or
\* the results are private; the user can vote, with a submissions_count that
\* counts from 0 when the recorded choices are not valid; the questions
\* answered are the configured ones; every answer is a configured one
MayVoteAgain(u) == ~ValidChoices(u) \/ private_results
HasVotesLeft(u) == can_vote(IF ValidChoices(u) THEN submissions_count[u] ELSE 0)
AnswersAllQuestions(data) == DOMAIN data = Keys(questions)
AnswersKnown(data) == \A key \in DOMAIN data : data[key] \in Keys(answers)

\* C11: a Survey vote is accepted exactly when the four conditions hold, and
\* each condition that does not hold adds its own error to the result.
C11_SurveyVoteAccepted ==
    block = "survey" =>
        \A u \in Users, data \in SurveyVotes :
            \A run \in {SurveyBlock_vote_run(u, data)} :
                /\ (~run.raised /\ run.result.success)
                       <=> /\ MayVoteAgain(u)
                           /\ HasVotesLeft(u)
                           /\ AnswersAllQuestions(data)
                           /\ AnswersKnown(data)
                /\ ~run.raised =>
                      \A errors \in {Range(run.result.errors)} :
                          /\ AlreadyVoted \in errors <=> ~MayVoteAgain(u)
                          /\ NoVotesLeft \in errors <=> ~HasVotesLeft(u)
                          /\ QuestionsMismatch \in errors <=> ~AnswersAllQuestions(data)
                          /\ UnknownAnswer \in errors <=> ~AnswersKnown(data)

\* C12: in a Survey the reconciled tally has the same number of votes for
\* every question, so the total tally_detail takes from the entry the tally
\* yields first is the total of every question.
C12_SameTotalForEveryQuestion ==
    block = "survey" =>
        \A cleaned \in {SurveyBlock_clean_tally(tally)} :
            /\ \A q1, q2 \in DOMAIN cleaned :
                  SumValues(cleaned[q1]) = SumValues(cleaned[q2])
            /\ \A u \in Users, first \in DOMAIN cleaned, key \in DOMAIN cleaned :
                  SurveyBlock_tally_detail(u, first).total = SumValues(cleaned[key])

\* The recorded choices of a Survey user are valid no more
StaleChoices(u) == choices[u] # NoneDict /\ ~ValidChoices(u)

\* The votes of user u that remove_vote is to take out of the tally: the
\* recorded choices whose question and answer are both configured
OldVotes(u) ==
    {<<key, choices[u][key]>> : key \in {k \in DOMAIN choices[u] :
        k \in Keys(questions) /\ choices[u][k] \in Keys(answers)}}

\* Tally `after` is tally `before` with one vote less for each of `votes`
OneLessEach(after, before, votes) ==
    /\ \A vote \in votes : vote[1] \in DOMAIN before /\ vote[2] \in DOMAIN before[vote[1]]
    /\ DOMAIN after = DOMAIN before
    /\ \A key \in DOMAIN before :
          /\ DOMAIN after[key] = DOMAIN before[key]
          /\ \A answer \in DOMAIN before[key] :
                after[key][answer] =
                    IF <<key, answer>> \in votes
                    THEN before[key][answer] - 1
                    ELSE before[key][answer]

\* C13: when the recorded choices of a Survey user are valid no more, the
\* next handler of that user that calls get_choices (student_view,
\* student_voted, student_view_user_state, vote) takes exactly one vote out
\* of the tally for each old vote whose question and answer are both
\* configured, clears the user's choices and has get_choices return none.
C13_StaleVotesRemovedLazily ==
    block = "survey" =>
        \A u \in Users :
            StaleChoices(u) =>
                /\ \A gc \in {SurveyBlock_get_choices(u)} :
                      /\ ~gc.raised
                      /\ gc.value = NoneDict
                      /\ gc.choices = NoneDict
                      /\ OneLessEach(gc.tally, tally, OldVotes(u))
                /\ \A run \in {SurveyBlock_read_run(u)} :
                      /\ ~run.raised
                      /\ run.choices = NoneDict
                      /\ OneLessEach(run.tally, tally, OldVotes(u))
                /\ \A data \in SurveyVotes :
                      \A run \in {SurveyBlock_vote_run(u, data)} :
                          /\ ~run.raised
                          /\ ~run.result.success =>
                                /\ run.choices = NoneDict
                                /\ OneLessEach(run.tally, tally, OldVotes(u))

\* C14: a studio_submit step, accepted or rejected, of the Poll or of the
\* Survey, leaves the tally and every user's choice, choices and
\* submissions_count as they are.
\* (Stated by its contrapositive: a step that changes one of them is no
\* studio_submit step.)
C14_StudioSubmitFrame ==
    [][UNCHANGED <<tally, choice, choices, submissions_count>>
       \/ ~(\/ \E request \in PollRequests : PollBlock_studio_submit(request)
            \/ \E request \in SurveyRequests : SurveyBlock_studio_submit(request))]_vars

\* A studio_submit has left behind a Poll tally that does not fit the answers
\* and a user who has voted for an answer that is configured no more
C14_EditLeftTallyAndChoice ==
    /\ block = "poll"
    /\ DOMAIN tally # Keys(answers)
    /\ \E u \in Users :
          /\ choice[u] \in DOMAIN tally \ Keys(answers)
          /\ tally[choice[u]] >= 1
          /\ submissions_count[u] >= 1

\* The users whose recorded choice is the answer `key`
VotersFor(key) == {u \in Users : choice[u] = key}

\* C15: in a Poll that starts with a tally of zeros and no choices, and whose
\* answers are not edited, after every operation the tally of each answer is
\* the number of users whose recorded choice is that answer, and the total
\* reported is the number of users who have voted.
C15_TallyCountsChoices ==
    /\ DOMAIN tally = Keys(answers)
    /\ \A key \in Keys(answers) : tally[key] = Cardinality(VotersFor(key))
    /\ \A u \in Users :
          PollBlock_tally_detail(u).total
              = Cardinality({v \in Users : choice[v] # None})

\* Both users have voted, for different answers, and one of them has changed
\* the vote
C15_TwoVotersOneChanged ==
    /\ \E key \in Keys(answers) : Cardinality(VotersFor(key)) = 1
    /\ \A u \in Users : choice[u] # None
    /\ \E u, v \in Users : choice[u] # choice[v] /\ submissions_count[u] = 2

\* C16: no counter of the tally is ever negative, in the Poll and in the
\* Survey, whatever sequence of votes and edits (answers or questions removed
\* and added again included) has led to the state.
C16_NoNegativeCounter ==
    \A key \in DOMAIN tally :
        IF block = "poll"
        THEN tally[key] >= 0
        ELSE \A answer \in DOMAIN tally[key] : tally[key][answer] >= 0

\* C17: in every reachable state of the Survey, get_choices and remove_vote
\* find every tally entry they decrement: no student_view, student_voted,
\* student_view_user_state or vote of any user raises on a missing key.
C17_NoMissingTallyEntry ==
    block = "survey" =>
        \A u \in Users :
            /\ ~SurveyBlock_get_choices(u).raised
            /\ ~SurveyBlock_read_run(u).raised
            /\ \A data \in SurveyVotes : ~SurveyBlock_vote_run(u, data).raised

\* The counters `after` are the counters `before` with one vote moved from
\* `old` to `new`: nothing changes when they are the same answer
Moved(after, before, old, new) ==
    /\ DOMAIN after = DOMAIN before
    /\ \A key \in DOMAIN before :
          after[key] = before[key] - (IF key = old THEN 1 ELSE 0)
                                   + (IF key = new THEN 1 ELSE 0)
    /\ SumValues(after) = SumValues(before)

\* The Poll's part of C18
RevoteMovesPollVote ==
    \A u \in Users, data \in PollVotes :
        (/\ PollBlock_get_choice(u) # None
         /\ private_results
         /\ can_vote(submissions_count[u])
         /\ NamesAnswer(data))
        => \A run \in {PollBlock_vote_run(u, data)} :
              /\ run.result.success
              /\ Moved(run.tally, PollBlock_clean_tally(tally),
                       PollBlock_get_choice(u), data.choice)
              /\ run.choice = data.choice
              /\ run.submissions_count = submissions_count[u] + 1

\* The Survey's part of C18
RevoteMovesSurveyVote ==
    \A u \in Users, data \in SurveyVotes :
        (/\ ValidChoices(u)
         /\ private_results
         /\ can_vote(submissions_count[u])
         /\ AnswersAllQuestions(data)
         /\ AnswersKnown(data))
        => \A run \in {SurveyBlock_vote_run(u, data)} :
              /\ ~run.raised
              /\ run.result.success
              /\ \A before \in {SurveyBlock_clean_tally(tally)} :
                    /\ DOMAIN run.tally = DOMAIN before
                    /\ \A key \in DOMAIN before :
                          Moved(run.tally[key], before[key], choices[u][key], data[key])
              /\ run.choices = data
              /\ run.submissions_count = submissions_count[u] + 1

\* C18: an accepted re-vote (the user has a valid recorded choice,
\* private_results is true and submissions remain) moves the vote: the old
\* choice's counter goes down by one and the new one's up by one (no change
\* when they are the same), the total of the reconciled tally stays, the
\* recorded choice becomes the new one and submissions_count goes up by one;
\* in the Poll, and for each question of the Survey.
C18_RevoteMovesVote ==
    IF block = "poll" THEN RevoteMovesPollVote ELSE RevoteMovesSurveyVote

====
